---- MODULE Spec2Model ----
(***************************************************************************)
(* Model of horovod/data/data_loader_base.py: AsyncDataLoaderMixin, the    *)
(* background worker thread that feeds a bounded queue from _iterate(),    *)
(* the consumer generator __iter__ and close_async_loader.                 *)
(*                                                                         *)
(* Two threads: the consumer (cpc) and the worker (wpc).  Each action is   *)
(* one atomic step of one thread: one queue operation, one read of the     *)
(* event, or one step of the source generator.                             *)
(***************************************************************************)
EXTENDS Integers, Sequences, FiniteSets, TLC

\* ---------------------------------------------------------------- bounds
\* largest async_loader_queue_size tried (the smallest is -1)
MaxCap == 4
\* largest number of batches in one pass of _iterate()
MaxPassLen == 2
\* passes are labelled modulo NumTags, so that neighbouring passes differ
NumTags == 2

VARIABLES
    cap,            \* self.async_loader_queue_size
    passLen,        \* source: batches in one full pass of _iterate()
    faultPass,      \* source: label of the pass that raises, -1 if none does
    faultK,         \* source: batches the raising pass yields before it raises
    asyncAttrs,     \* finished_event, queue, thread, started were created
    started,        \* self.started
    finished,       \* self.finished_event.is_set()
    queue,          \* self.queue, head first
    wpc,            \* position of the worker thread in _async_worker
    passNo,         \* label of the current (or next) _iterate() call
    idx,            \* batches the current _iterate() generator has yielded
    cpc,            \* position of the consumer thread
    yielded,        \* batches the current __iter__ call has yielded so far
    result,         \* how the last __iter__ call stands
    raisedVal,      \* the exception the last __iter__ call raised
    callTag,        \* number of the current __iter__ call, modulo NumTags
    launches,       \* number of self.thread.start() calls
    abandoned,      \* some __iter__ generator was dropped before its end
    closeState,     \* "never", "noop" (a close that did nothing returned),
                    \* "joined" (a close that joined the worker returned)
    callAfter,      \* closeState when the current __iter__ call began
    faultSurfaced,  \* some __iter__ call has raised the source's exception
    callAfterRaise, \* faultSurfaced when the current __iter__ call began
    lastEnq,        \* the element the worker enqueued last
    errEnq,         \* the worker has enqueued an exception
    tailNones,      \* None enqueued since the last batch or exception was
                    \* enqueued or the last _iterate() call was made
    afterSig,       \* elements enqueued since finished_event was set, by kind
    pendingB,       \* batches enqueued and neither yielded nor drained yet
    conPass,        \* number of None the consumer's get has popped, mod NumTags
    conIdx,         \* batches the consumer's get has popped since the last None
    callFrom,       \* conIdx when the current __iter__ call began
    callPass        \* conPass when the current __iter__ call began

vars == <<cap, passLen, faultPass, faultK, asyncAttrs, started, finished,
          queue, wpc, passNo, idx, cpc, yielded, result, raisedVal, callTag,
          launches, abandoned, closeState, callAfter, faultSurfaced,
          callAfterRaise, lastEnq, errEnq, tailNones, afterSig, pendingB,
          conPass, conIdx, callFrom, callPass>>

srcVars == <<cap, passLen, faultPass, faultK, asyncAttrs>>
obsVars == <<yielded, result, raisedVal, callTag, callAfter, callAfterRaise>>
wGhost == <<lastEnq, errEnq, tailNones, afterSig>>
cGhost == <<conPass, conIdx, callFrom, callPass>>
ghostVars == <<wGhost, pendingB, cGhost>>

\* ------------------------------------------------------- queue elements
Batch(p, i) == [kind |-> "batch", pass |-> p, idx |-> i]
Err(p, i) == [kind |-> "error", pass |-> p, idx |-> i]
None == [kind |-> "none", pass |-> 0, idx |-> 0]

Nothing == [kind |-> "nothing", pass |-> 0, idx |-> 0]

IsNone(e) == e.kind = "none"

IsExceptionNever(e) == FALSE
IsException(e) == e.kind = "error"

\* the batches of a whole pass p, and its first k batches
FirstK(p, k) == [i \in 1..k |-> Batch(p, i)]
PassBatches(p) == FirstK(p, passLen)

NextTag(t) == (t + 1) % NumTags

\* ------------------------------------------------------------ the source
\* One step of the generator returned by _iterate() for pass p after it has
\* yielded i batches: it raises, yields batch i+1, or is exhausted.
SourceStep(p, i) ==
    IF p = faultPass /\ i = faultK THEN "raise"
    ELSE IF i < passLen THEN "yield"
    ELSE "stop"

\* _process_batch: the default hook returns the batch unchanged
ProcessBatch(b) == b

\* ---------------------------------------------------- pieces of the code
AsyncEnabledSync0(c) == c >= 0
AsyncEnabled(c) == c > 0

ShouldStartAlways(s) == TRUE
ShouldStart(s) == ~s

CloseActsUnstarted(c, s) == AsyncEnabled(c)
CloseActs(c, s) == AsyncEnabled(c) /\ s

EnqueueFront(q, e) == <<e>> \o q
Enqueue(q, e) == Append(q, e)

FullOffByOne(q, c) == Len(q) > c
Full(q, c) == Len(q) >= c

ThreadFinishedNoWait(w) == TRUE
ThreadFinished(w) == w = "w_done"

BreakRequestedNever(f) == FALSE
BreakRequested(f) == f

\* self.queue.put(None) at the end of a pass
PutMarkerSkip(q) == q
PutMarker(q) == Enqueue(q, None)

\* what the except clause puts for the exception ex: ex itself, then None
ExceptFirstNone(ex) == None
ExceptFirst(ex) == ex

ExceptSecondAgain(ex) == ex
ExceptSecond(ex) == None

\* ------------------------------------------------------------------ Init
Init ==
    /\ cap \in (-1)..MaxCap
    /\ passLen \in 0..MaxPassLen
    /\ faultPass \in (-1)..(NumTags - 1)
    /\ faultK \in 0..passLen
    /\ (faultPass = -1 => faultK = 0)
    /\ asyncAttrs = AsyncEnabled(cap)
    /\ started = FALSE
    /\ finished = FALSE
    /\ queue = << >>
    /\ wpc = "w_idle"
    /\ passNo = 0
    /\ idx = 0
    /\ cpc = "c_idle"
    /\ yielded = << >>
    /\ result = "none"
    /\ raisedVal = None
    /\ callTag = 0
    /\ launches = 0
    /\ abandoned = FALSE
    /\ closeState = "never"
    /\ callAfter = "never"
    /\ faultSurfaced = FALSE
    /\ callAfterRaise = FALSE
    /\ lastEnq = Nothing
    /\ errEnq = FALSE
    /\ tailNones = 0
    /\ afterSig = [batch |-> 0, error |-> 0, none |-> 0]
    /\ pendingB = << >>
    /\ conPass = 0
    /\ conIdx = 0
    /\ callFrom = 0
    /\ callPass = 0

\* ------------------------------------------------------------ the worker
\* what a step that may have enqueued an element records of it
RecordPut ==
    LET grew == Len(queue') > Len(queue)
        e == queue'[Len(queue')]
    IN /\ lastEnq' = IF grew THEN e ELSE lastEnq
       /\ errEnq' = (errEnq \/ (grew /\ IsException(e)))
       /\ tailNones' = IF ~grew THEN tailNones
                       ELSE IF IsNone(e) THEN tailNones + 1 ELSE 0
       /\ afterSig' = IF grew /\ finished
                      THEN [afterSig EXCEPT ![e.kind] = @ + 1]
                      ELSE afterSig
       /\ pendingB' = IF grew /\ e.kind = "batch"
                      THEN Append(pendingB, e) ELSE pendingB

\* while not self.finished_event.is_set()
WorkerWhile ==
    /\ wpc = "w_while"
    /\ wpc' = IF finished THEN "w_finally" ELSE "w_iter"
    /\ UNCHANGED <<srcVars, started, finished, queue, passNo, idx, cpc,
                   obsVars, launches, abandoned, closeState, faultSurfaced,
                   ghostVars>>

\* for batch in self._iterate(): the call of _iterate() that begins a pass
WorkerIterate ==
    /\ wpc = "w_iter"
    /\ wpc' = "w_next"
    /\ idx' = 0
    /\ tailNones' = 0
    /\ UNCHANGED <<srcVars, started, finished, queue, passNo, cpc, obsVars,
                   launches, abandoned, closeState, faultSurfaced, lastEnq,
                   errEnq, afterSig, pendingB, cGhost>>

\* one step of the for loop: the generator raises, yields or is exhausted
WorkerNext ==
    /\ wpc = "w_next"
    /\ LET s == SourceStep(passNo, idx) IN
         /\ wpc' = CASE s = "raise" -> "w_except"
                     [] s = "yield" -> "w_check"
                     [] OTHER -> "w_marker"
         /\ idx' = IF s = "yield" THEN idx + 1 ELSE idx
    /\ UNCHANGED <<srcVars, started, finished, queue, passNo, cpc, obsVars,
                   launches, abandoned, closeState, faultSurfaced, ghostVars>>

\* if self.finished_event.is_set(): break
WorkerCheck ==
    /\ wpc = "w_check"
    /\ wpc' = IF BreakRequested(finished) THEN "w_marker" ELSE "w_put"
    /\ UNCHANGED <<srcVars, started, finished, queue, passNo, idx, cpc,
                   obsVars, launches, abandoned, closeState, faultSurfaced,
                   ghostVars>>

\* self.queue.put(batch)
WorkerPut ==
    /\ wpc = "w_put"
    /\ ~Full(queue, cap)
    /\ queue' = Enqueue(queue, Batch(passNo, idx))
    /\ wpc' = "w_next"
    /\ RecordPut
    /\ UNCHANGED <<srcVars, started, finished, passNo, idx, cpc, obsVars,
                   launches, abandoned, closeState, faultSurfaced, cGhost>>

\* self.queue.put(None) after the for loop
WorkerMarker ==
    /\ wpc = "w_marker"
    /\ ~Full(queue, cap)
    /\ queue' = PutMarker(queue)
    /\ passNo' = NextTag(passNo)
    /\ wpc' = "w_while"
    /\ RecordPut
    /\ UNCHANGED <<srcVars, started, finished, idx, cpc, obsVars, launches,
                   abandoned, closeState, faultSurfaced, cGhost>>

\* except Exception as ex: self.queue.put(ex)
WorkerExceptPut ==
    /\ wpc = "w_except"
    /\ ~Full(queue, cap)
    /\ queue' = Enqueue(queue, ExceptFirst(Err(passNo, idx)))
    /\ wpc' = "w_except_none"
    /\ RecordPut
    /\ UNCHANGED <<srcVars, started, finished, passNo, idx, cpc, obsVars,
                   launches, abandoned, closeState, faultSurfaced, cGhost>>

\* except Exception as ex: ... self.queue.put(None)
WorkerExceptNone ==
    /\ wpc = "w_except_none"
    /\ ~Full(queue, cap)
    /\ queue' = Enqueue(queue, ExceptSecond(Err(passNo, idx)))
    /\ wpc' = "w_finally"
    /\ RecordPut
    /\ UNCHANGED <<srcVars, started, finished, passNo, idx, cpc, obsVars,
                   launches, abandoned, closeState, faultSurfaced, cGhost>>

\* finally: self.queue.put(None), then the thread ends
WorkerFinally ==
    /\ wpc = "w_finally"
    /\ ~Full(queue, cap)
    /\ queue' = Enqueue(queue, None)
    /\ wpc' = "w_done"
    /\ RecordPut
    /\ UNCHANGED <<srcVars, started, finished, passNo, idx, cpc, obsVars,
                   launches, abandoned, closeState, faultSurfaced, cGhost>>

\* ---------------------------------------------------------- the consumer
\* what every new __iter__ call records
BeginCall ==
    /\ yielded' = << >>
    /\ result' = "running"
    /\ raisedVal' = None
    /\ callTag' = IF result = "none" THEN 0 ELSE NextTag(callTag)
    /\ callAfter' = closeState
    /\ callAfterRaise' = faultSurfaced
    /\ callFrom' = conIdx
    /\ callPass' = conPass

\* __iter__, asynchronous branch: start the thread once, then read the queue
IterAsyncBegin ==
    /\ cpc = "c_idle"
    /\ AsyncEnabled(cap)
    /\ IF ShouldStart(started)
       THEN started' = TRUE /\ launches' = launches + 1 /\ wpc' = "w_while"
       ELSE UNCHANGED <<started, launches, wpc>>
    /\ cpc' = "c_get"
    /\ BeginCall
    /\ UNCHANGED <<srcVars, finished, queue, passNo, idx, abandoned,
                   closeState, faultSurfaced, wGhost, pendingB, conPass,
                   conIdx>>

\* batch = self.queue.get(), and what __iter__ does with it
QueueGet ==
    /\ cpc = "c_get"
    /\ queue # << >>
    /\ LET e == Head(queue) IN
         /\ queue' = Tail(queue)
         /\ IF IsNone(e)
            THEN /\ cpc' = "c_idle"
                 /\ result' = "ended"
                 /\ conPass' = NextTag(conPass)
                 /\ conIdx' = 0
                 /\ UNCHANGED <<yielded, raisedVal, faultSurfaced, pendingB>>
            ELSE IF IsException(e)
            THEN /\ cpc' = "c_idle"
                 /\ result' = "raised"
                 /\ raisedVal' = e
                 /\ faultSurfaced' = TRUE
                 /\ UNCHANGED <<yielded, pendingB, conPass, conIdx>>
            ELSE /\ cpc' = "c_yielded"
                 /\ yielded' = Append(yielded, ProcessBatch(e))
                 /\ pendingB' = IF pendingB # << >> THEN Tail(pendingB)
                                ELSE pendingB
                 /\ conIdx' = conIdx + 1
                 /\ UNCHANGED <<result, raisedVal, faultSurfaced, conPass>>
    /\ UNCHANGED <<srcVars, started, finished, wpc, passNo, idx, callTag,
                   launches, abandoned, closeState, callAfter, callAfterRaise,
                   wGhost, callFrom, callPass>>

\* the consumer asks the suspended generator for the next batch
Resume ==
    /\ cpc = "c_yielded"
    /\ cpc' = IF AsyncEnabled(cap) THEN "c_get" ELSE "c_sync_next"
    /\ UNCHANGED <<srcVars, started, finished, queue, wpc, passNo, idx,
                   obsVars, launches, abandoned, closeState, faultSurfaced,
                   ghostVars>>

\* the consumer drops the suspended generator
Abandon ==
    /\ cpc = "c_yielded"
    /\ cpc' = "c_idle"
    /\ result' = "abandoned"
    /\ abandoned' = TRUE
    /\ UNCHANGED <<srcVars, started, finished, queue, wpc, passNo, idx,
                   yielded, raisedVal, callTag, callAfter, callAfterRaise,
                   launches, closeState, faultSurfaced, ghostVars>>

\* __iter__, synchronous branch: for batch in self._iterate()
IterSyncBegin ==
    /\ cpc = "c_idle"
    /\ ~AsyncEnabled(cap)
    /\ cpc' = "c_sync_next"
    /\ passNo' = IF result = "none" THEN 0 ELSE NextTag(passNo)
    /\ idx' = 0
    /\ BeginCall
    /\ UNCHANGED <<srcVars, started, finished, queue, wpc, launches,
                   abandoned, closeState, faultSurfaced, wGhost, pendingB,
                   conPass, conIdx>>

\* one step of the synchronous for loop, on the consumer's thread
SyncNext ==
    /\ cpc = "c_sync_next"
    /\ LET s == SourceStep(passNo, idx) IN
         CASE s = "raise" ->
                /\ cpc' = "c_idle"
                /\ result' = "raised"
                /\ raisedVal' = Err(passNo, idx)
                /\ faultSurfaced' = TRUE
                /\ UNCHANGED <<yielded, idx>>
           [] s = "yield" ->
                /\ cpc' = "c_yielded"
                /\ idx' = idx + 1
                /\ yielded' = Append(yielded, ProcessBatch(Batch(passNo, idx + 1)))
                /\ UNCHANGED <<result, raisedVal, faultSurfaced>>
           [] OTHER ->
                /\ cpc' = "c_idle"
                /\ result' = "ended"
                /\ UNCHANGED <<yielded, idx, raisedVal, faultSurfaced>>
    /\ UNCHANGED <<srcVars, started, finished, queue, wpc, passNo, callTag,
                   launches, abandoned, closeState, callAfter, callAfterRaise,
                   ghostVars>>

\* close_async_loader: the test, and finished_event.set()
CloseCall ==
    /\ cpc = "c_idle"
    /\ IF CloseActs(cap, started)
       THEN /\ finished' = TRUE
            /\ cpc' = "c_drain"
            /\ UNCHANGED closeState
       ELSE /\ closeState' = IF closeState = "never" THEN "noop" ELSE closeState
            /\ UNCHANGED <<finished, cpc>>
    /\ UNCHANGED <<srcVars, started, queue, wpc, passNo, idx, obsVars,
                   launches, abandoned, faultSurfaced, ghostVars>>

\* one turn of the drain loop: get_nowait() returns an element or raises Empty
DrainStep ==
    /\ cpc = "c_drain"
    /\ IF queue # << >>
       THEN /\ queue' = Tail(queue)
            /\ cpc' = cpc
            /\ pendingB' = IF Head(queue).kind = "batch" /\ pendingB # << >>
                           THEN Tail(pendingB) ELSE pendingB
       ELSE /\ queue' = queue
            /\ cpc' = "c_join"
            /\ pendingB' = pendingB
    /\ UNCHANGED <<srcVars, started, finished, wpc, passNo, idx, obsVars,
                   launches, abandoned, closeState, faultSurfaced, wGhost,
                   cGhost>>

\* self.thread.join() returns once the worker thread has ended
Join ==
    /\ cpc = "c_join"
    /\ ThreadFinished(wpc)
    /\ cpc' = "c_idle"
    /\ closeState' = "joined"
    /\ UNCHANGED <<srcVars, started, finished, queue, wpc, passNo, idx,
                   obsVars, launches, abandoned, faultSurfaced, ghostVars>>

Next ==
    \/ WorkerWhile
    \/ WorkerIterate
    \/ WorkerNext
    \/ WorkerCheck
    \/ WorkerPut
    \/ WorkerMarker
    \/ WorkerExceptPut
    \/ WorkerExceptNone
    \/ WorkerFinally
    \/ IterAsyncBegin
    \/ QueueGet
    \/ Resume
    \/ Abandon
    \/ IterSyncBegin
    \/ SyncNext
    \/ CloseCall
    \/ DrainStep
    \/ Join

Spec == Init /\ [][Next]_vars

\* ------------------------------------------------------------ properties
\* the worker is waiting in queue.put on a full queue
WorkerBlockedOnPut ==
    /\ wpc \in {"w_put", "w_marker", "w_except", "w_except_none", "w_finally"}
    /\ Full(queue, cap)

\* an __iter__ call has been made and this is how far it has got
CallMade == result # "none"

\* C1: asynchronous mode, no fault surfaced, no close, no generator dropped:
\* what an __iter__ call has yielded is always the first batches of the pass
\* with the call's own number, in order, and when the call ends it is the
\* whole of that pass.
C1_PassDelivered ==
    (cap > 0 /\ CallMade /\ ~abandoned /\ ~finished /\ closeState = "never"
       /\ ~faultSurfaced)
    => /\ Len(yielded) <= passLen
       /\ yielded = FirstK(callTag, Len(yielded))
       /\ (result = "ended" => yielded = PassBatches(callTag))

C1_Witness ==
    /\ cap > 0 /\ ~abandoned /\ ~finished /\ closeState = "never"
    /\ ~faultSurfaced
    /\ result = "ended" /\ callTag = 1 /\ passLen = 2
    /\ yielded = <<Batch(1, 1), Batch(1, 2)>>

\* C2: self.started never goes back to false, thread.start() is called at
\* most once, exactly when started becomes true, and that is in the first
\* __iter__ call.
C2_StartedOnce ==
    [][/\ (started => started')
       /\ launches' <= 1
       /\ (started' <=> launches' = 1)
       /\ (launches' # launches => result = "none" /\ result' = "running")]_vars

C2_Witness ==
    /\ launches = 1 /\ callAfter = "joined" /\ result = "running"
    /\ wpc = "w_done" /\ faultSurfaced

\* C3: close never reaches thread.join() while the worker waits in queue.put
\* on a full queue (a state no step can leave: the only other thread is in
\* join).
C3_CloseNeverDeadlocks == ~(cpc = "c_join" /\ WorkerBlockedOnPut)

\* C4 (as claimed): once any close has returned, the worker is not running
\* and nothing is enqueued any more.
C4_ClosedAbsorbing ==
    [][closeState' # "never"
         => wpc' \in {"w_idle", "w_done"} /\ Len(queue') <= Len(queue)]_vars

\* C4 (amended): once a close that was called on a started pipeline has
\* returned, or any close in synchronous mode, the worker is not running and
\* nothing is enqueued any more, also when __iter__ is called afterwards.
C4_JoinedAbsorbing ==
    [][(closeState' = "joined" \/ (closeState' = "noop" /\ cap <= 0))
         => /\ wpc' = (IF cap > 0 THEN "w_done" ELSE "w_idle")
            /\ Len(queue') <= Len(queue)]_vars

C4_Witness ==
    /\ closeState = "joined" /\ callAfter = "joined" /\ cpc = "c_get"
    /\ queue # << >>

\* C5: an __iter__ call that raises has raised the source's exception, has
\* ended, and (asynchronous mode: with no close and no dropped generator) has
\* yielded exactly the faultK batches the raising pass produced; and the call
\* that consumes the raising pass does not end cleanly.
C5_FaultAfterK ==
    /\ (result = "raised"
          => /\ cpc \notin {"c_get", "c_yielded", "c_sync_next"}
             /\ raisedVal = Err(faultPass, faultK))
    /\ (result = "raised" /\ (cap > 0 => ~abandoned /\ ~finished)
          => yielded = FirstK(faultPass, faultK))
    /\ (cap > 0 /\ ~abandoned /\ ~finished /\ result = "ended"
          /\ callTag = faultPass
          => faultSurfaced)

C5_Witness ==
    /\ cap = 1 /\ result = "raised" /\ ~abandoned /\ ~finished
    /\ faultPass = 1 /\ faultK = 1 /\ passLen = 2
    /\ yielded = <<Batch(1, 1)>> /\ raisedVal = Err(1, 1)

\* C6: asynchronous mode, no close: an __iter__ call begun after the fault
\* was raised in the consumer yields nothing, raises nothing and is never
\* left waiting on the empty queue of the ended worker.
C6_DeadWorkerEmpty ==
    (cap > 0 /\ ~finished /\ CallMade /\ callAfterRaise)
    => /\ yielded = << >>
       /\ result # "raised"
       /\ ~(cpc = "c_get" /\ queue = << >> /\ wpc = "w_done")

\* C7: an __iter__ call begun after a close that joined the worker yields
\* nothing and is never left waiting on the empty queue.
C7_IterAfterCloseEmpty ==
    (CallMade /\ callAfter = "joined")
    => /\ yielded = << >>
       /\ ~(cpc = "c_get" /\ queue = << >>)

\* a step of a close call made after a close that joined the worker returned
LaterCloseStep == closeState = "joined" /\ (CloseCall \/ DrainStep \/ Join)

\* the close call that does nothing: never started, or synchronous mode
NoOpCloseHolds ==
    (CloseCall /\ ~(cap > 0 /\ started))
    => /\ cpc' = "c_idle"
       /\ UNCHANGED <<finished, queue, wpc, started, launches>>

\* C8 (as claimed): a close before any __iter__ or in synchronous mode does
\* nothing, and every step of a close made after a first close has returned
\* leaves the signal, the queue and the worker as they were.
C8_CloseIdempotent ==
    [][/\ NoOpCloseHolds
       /\ (LaterCloseStep => UNCHANGED <<finished, queue, wpc>>)]_vars

\* C8 (amended): a close before any __iter__ or in synchronous mode does
\* nothing; a close made after a first close has returned leaves the signal
\* set and the worker ended, finds the worker ended when it joins (so it
\* does not wait), only ever removes elements from the queue, and returns
\* with the queue empty.
C8_LaterCloseHarmless ==
    [][/\ NoOpCloseHolds
       /\ (LaterCloseStep
             => /\ finished /\ finished'
                /\ wpc = "w_done" /\ wpc' = "w_done"
                /\ (queue' = queue \/ queue' = Tail(queue))
                /\ (cpc' = "c_join" => queue' = << >>)
                /\ (cpc' = "c_idle" => queue' = << >>))]_vars

C8_Witness ==
    /\ closeState = "joined" /\ cpc = "c_drain" /\ queue # << >>

\* C9: with async_loader_queue_size = 0 none of the asynchronous attributes
\* exists, no thread is ever started, the consumer never touches a queue,
\* every __iter__ call is one _iterate() call of its own, yields that pass's
\* batches in order and, when it ends, has yielded the whole pass.
C9_SyncMode ==
    cap = 0
    => /\ ~asyncAttrs /\ ~started /\ ~finished /\ launches = 0
       /\ wpc = "w_idle" /\ queue = << >>
       /\ cpc \in {"c_idle", "c_sync_next", "c_yielded"}
       /\ (CallMade
             => /\ passNo = callTag
                /\ Len(yielded) <= passLen
                /\ yielded = FirstK(callTag, Len(yielded)))
       /\ (result = "ended" => yielded = PassBatches(callTag))
       /\ (result = "raised"
             => callTag = faultPass /\ yielded = FirstK(callTag, faultK))

C9_Witness ==
    /\ cap = 0 /\ result = "ended" /\ callTag = 1 /\ passLen = 2
    /\ yielded = <<Batch(1, 1), Batch(1, 2)>> /\ closeState = "noop"

\* C10: a pipeline constructed with a negative async_loader_queue_size is
\* never iterated: no __iter__ call on it begins or yields anything.
C10_NegativeCapacityRejected ==
    cap < 0 => result = "none" /\ yielded = << >> /\ cpc = "c_idle"

\* the element a step has just appended to the queue
Enqueued == Len(queue') > Len(queue)
NewElement == queue'[Len(queue')]

\* C11: while close has not been called, every batch an __iter__ call yields
\* is the oldest batch the worker enqueued that was not yielded before, so
\* that all batches yielded so far are a prefix of all batches enqueued; and
\* nothing but a batch is ever yielded.
C11_YieldedIsPrefix ==
    [][/\ (cap > 0 /\ ~finished' /\ Len(yielded') = Len(yielded) + 1)
            => /\ pendingB # << >>
               /\ yielded'[Len(yielded')] = Head(pendingB)
       /\ \A i \in 1..Len(yielded') : yielded'[i].kind = "batch"]_vars

C11_Witness ==
    /\ cap > 0 /\ ~finished /\ abandoned /\ callFrom = 1
    /\ cpc = "c_yielded" /\ Len(yielded) = 1 /\ pendingB # << >>

\* C12: when the worker thread has ended, it has enqueued exactly one None
\* since the last batch or exception it enqueued.
C12_OneMarkerPerExit == wpc = "w_done" => tailNones = 1

\* C13: once the worker has enqueued an exception, everything it enqueues
\* is None (so no second exception and no batch), and it is on its way out:
\* it makes no further step of _iterate().
C13_ErrorOnceThenMarker ==
    [][/\ (errEnq /\ Enqueued => IsNone(NewElement))
       /\ (errEnq' => wpc' \in {"w_except_none", "w_finally", "w_done"})]_vars

C13_Witness ==
    /\ errEnq /\ wpc = "w_done" /\ lastEnq = None /\ tailNones = 2

\* C14: when a close that joined the worker has returned, an exception the
\* worker enqueued has been raised in an __iter__ call.
C14_ErrorSeenBeforeClose ==
    (closeState = "joined" /\ errEnq) => faultSurfaced

\* C15: asynchronous mode: the queue never holds more than
\* async_loader_queue_size elements, no put of the worker can go ahead while
\* it is full, and the consumer's get cannot go ahead while it is empty.
C15_QueueBounded ==
    cap > 0
    => /\ Len(queue) <= cap
       /\ (Len(queue) = cap
             => ~ENABLED (WorkerPut \/ WorkerMarker \/ WorkerExceptPut
                            \/ WorkerExceptNone \/ WorkerFinally))
       /\ (queue = << >> => ~ENABLED QueueGet)

C15_Witness ==
    /\ cap = 2 /\ Len(queue) = 2 /\ wpc = "w_put" /\ cpc = "c_yielded"

\* what C16 says of every step, whatever is said of beginning a pass
SignalStopsBatches ==
    /\ (finished => finished')
    /\ (finished /\ wpc = "w_check" => wpc' # "w_put")
    /\ afterSig'.batch <= 1

\* C16 (as claimed): the signal stays set, no batch whose check ran after
\* the signal is enqueued, at most one batch is enqueued after the signal,
\* and the worker makes no _iterate() call once the signal is set.
C16_StopsAtNextCheck ==
    [][/\ SignalStopsBatches
       /\ (finished => ~(wpc = "w_iter" /\ wpc' = "w_next"))]_vars

\* C16 (amended): the signal stays set, no batch whose check ran after the
\* signal is enqueued, at most one batch is enqueued after the signal, and
\* the worker goes on to no _iterate() call from a while test that ran
\* after the signal.
C16_StopsAtNextOwnCheck ==
    [][/\ SignalStopsBatches
       /\ (finished /\ wpc = "w_while" => wpc' # "w_iter")]_vars

C16_Witness ==
    /\ finished /\ afterSig.batch = 1 /\ wpc = "w_done"
    /\ lastEnq = None /\ tailNones = 2

\* C17: with close not called, an __iter__ call never waits in queue.get()
\* on an empty queue whose worker thread has ended.
C17_ConsumerNeverStuck ==
    ~(cap > 0 /\ ~finished /\ cpc = "c_get" /\ queue = << >>
        /\ wpc = "w_done")

\* C18: a batch enqueued right after another batch is the next batch of the
\* same pass; the _iterate() call of a pass is made when the last element
\* enqueued is the None of the pass before (or nothing yet); and the worker
\* needs no step of the consumer to go from one pass to the next.
C18_PassesSeparated ==
    /\ [][/\ (Enqueued /\ NewElement.kind = "batch" /\ lastEnq.kind = "batch"
                => /\ NewElement.pass = lastEnq.pass
                   /\ NewElement.idx = lastEnq.idx + 1)
          /\ (wpc = "w_iter" /\ wpc' = "w_next"
                => lastEnq \in {Nothing, None})]_vars
    /\ [](wpc \in {"w_while", "w_iter"} => ENABLED (WorkerWhile \/ WorkerIterate))

C18_Witness ==
    /\ cap > 0 /\ passNo = 1 /\ wpc = "w_put" /\ idx = 1
    /\ callTag = 0 /\ result = "running" /\ lastEnq = None

\* C19: after finished_event is set the worker enqueues at most one batch,
\* one exception and two None, and with async_loader_queue_size >= 4 close
\* never waits in join for a worker that waits in put on a full queue.
C19_FourPutsAfterSignal ==
    cap > 0
    => /\ afterSig.batch <= 1
       /\ afterSig.error <= 1
       /\ afterSig.none <= 2
       /\ (cap >= 4 => ~(cpc = "c_join" /\ WorkerBlockedOnPut))

C19_Witness ==
    /\ cap = 4 /\ cpc = "c_join" /\ Len(queue) = 4 /\ wpc = "w_done"
    /\ afterSig = [batch |-> 1, error |-> 1, none |-> 2]

\* C20: no close, no fault surfaced: an __iter__ call begun after callFrom
\* batches of a pass were yielded to dropped generators yields the batches
\* of that same pass that follow them, in order, and ends when it has
\* yielded the last batch of that pass.
C20_ResumesAbandonedPass ==
    (cap > 0 /\ ~finished /\ ~faultSurfaced /\ CallMade /\ callFrom > 0)
    => /\ callFrom + Len(yielded) <= passLen
       /\ yielded = [i \in 1..Len(yielded) |-> Batch(callPass, callFrom + i)]
       /\ (result = "ended" => callFrom + Len(yielded) = passLen)

C20_Witness ==
    /\ cap > 0 /\ ~finished /\ ~faultSurfaced /\ passLen = 2
    /\ callFrom = 1 /\ callPass = 1 /\ result = "ended"
    /\ yielded = <<Batch(1, 2)>>

====
